---- MODULE Spec2Model ----
(***************************************************************************)
(* Input coercion of graphql-js: coerceInputValue / validateInputValue     *)
(* (values), coerceInputLiteral (literal AST nodes) and astFromValue (the  *)
(* inverse direction), over one schema whose field descriptors carry the   *)
(* memoized coerced default (_coercedDefaultValue).                        *)
(*                                                                         *)
(* JavaScript values, AST nodes and types are tagged records.  A string is *)
(* the sequence of its characters, so that the two regular expressions of  *)
(* astFromValue and the number <-> string conversions are computed.        *)
(***************************************************************************)
EXTENDS Integers, Sequences, FiniteSets, TLC

\* Bounds of the explored inputs.
MaxLen == 2
MaxKeys == 2

(***************************************************************************)
(* JavaScript values                                                       *)
(***************************************************************************)
Undefined == [k |-> "undefined"]
Null == [k |-> "null"]
Bool(b) == [k |-> "boolean", b |-> b]
\* A finite number is twice/2 (so halves are exact); ~fin is NaN/Infinity.
Num(n) == [k |-> "number", fin |-> TRUE, twice |-> 2 * n]
Half(t) == [k |-> "number", fin |-> TRUE, twice |-> t]
NaN == [k |-> "number", fin |-> FALSE, twice |-> 0]
Str(s) == [k |-> "string", s |-> s]
Arr(items) == [k |-> "array", items |-> items]
\* A generator object: a one-shot iterable, items are what it still yields.
Gen(items) == [k |-> "generator", items |-> items]
\* A plain object: own enumerable keys in insertion order, and their values.
Obj(keys, vals) == [k |-> "object", keys |-> keys, vals |-> vals]
\* A value with no literal form (typeof "symbol").
Sym == [k |-> "symbol"]

\* A variant that takes `x === null` for `x == null`; the properties of null
\* handling must tell it from isNullish.
isNullish_Strict(x) == x.k = "null"

\* `x == null`
isNullish(x) == x.k \in {"null", "undefined"}

\* jsutils/isIterableObject: typeof 'object' with a Symbol.iterator method.
isIterableObject(x) == x.k \in {"array", "generator"}

\* jsutils/isObjectLike: typeof value == 'object' && value !== null.
isObjectLike(x) == x.k \in {"array", "generator", "object"}

DigitChar == <<"0", "1", "2", "3", "4", "5", "6", "7", "8", "9">>
Digits == {DigitChar[i] : i \in 1..10}
Letters ==
  {"a", "b", "c", "d", "e", "f", "g", "h", "i", "j", "k", "l", "m",
   "n", "o", "p", "q", "r", "s", "t", "u", "v", "w", "x", "y", "z",
   "A", "B", "C", "D", "E", "F", "G", "H", "I", "J", "K", "L", "M",
   "N", "O", "P", "Q", "R", "S", "T", "U", "V", "W", "X", "Y", "Z"}

\* Decimal digits of a natural number, most significant first.
RECURSIVE NatToStr(_)
NatToStr(n) ==
  IF n < 10 THEN <<DigitChar[n + 1]>>
  ELSE NatToStr(n \div 10) \o <<DigitChar[(n % 10) + 1]>>

\* String(value) for a finite number.
NumberToString(x) ==
  LET a == IF x.twice < 0 THEN 0 - x.twice ELSE x.twice
  IN  (IF x.twice < 0 THEN <<"-">> ELSE <<>>)
        \o NatToStr(a \div 2)
        \o (IF a % 2 = 1 THEN <<".", "5">> ELSE <<>>)

DigitValue(c) == CHOOSE d \in 0..9 : DigitChar[d + 1] = c

\* The natural number written by a non-empty sequence of digits.
RECURSIVE StrToNat(_)
StrToNat(s) ==
  IF Len(s) = 1 THEN DigitValue(s[1])
  ELSE 10 * StrToNat(SubSeq(s, 1, Len(s) - 1)) + DigitValue(s[Len(s)])

AllIn(s, S) == \A i \in 1..Len(s) : s[i] \in S

\* Own enumerable string keys of an object-like value (Object.keys).
ObjectKeys(x) ==
  IF x.k = "object" THEN x.keys
  ELSE IF x.k = "array" THEN [i \in 1..Len(x.items) |-> NatToStr(i - 1)]
  ELSE <<>>

\* Property read x[name] for the field names of the schema (no field of the
\* schema is named like a built-in property such as "length").
GetProp(x, name) ==
  IF x.k = "object" /\ \E i \in 1..Len(x.keys) : x.keys[i] = name
  THEN x.vals[CHOOSE i \in 1..Len(x.keys) : x.keys[i] = name]
  ELSE Undefined

(***************************************************************************)
(* Input types                                                             *)
(***************************************************************************)
NonNull(T) == [t |-> "NonNull", ofType |-> T]
ListOf(T) == [t |-> "List", ofType |-> T]
Scalar(name) == [t |-> "Scalar", name |-> name]
Enum(name) == [t |-> "Enum", name |-> name]
InputObject(name) == [t |-> "InputObject", name |-> name]
\* An absent type hint of astFromValue.
NoType == [t |-> "undefined"]

isNonNullType(T) == T.t = "NonNull"
isListType(T) == T.t = "List"
isInputObjectType(T) == T.t = "InputObject"
isEnumType(T) == T.t = "Enum"
isLeafType(T) == T.t \in {"Scalar", "Enum"}

RECURSIVE getNamedType(_)
getNamedType(T) ==
  IF T.t \in {"NonNull", "List"} THEN getNamedType(T.ofType) ELSE T

GraphQLInt == Scalar(<<"I", "n", "t">>)
GraphQLFloat == Scalar(<<"F", "l", "o", "a", "t">>)
GraphQLString == Scalar(<<"S", "t", "r", "i", "n", "g">>)
GraphQLBoolean == Scalar(<<"B", "o", "o", "l", "e", "a", "n">>)
GraphQLID == Scalar(<<"I", "D">>)
\* A user-defined scalar.
CustomScalar == Scalar(<<"C", "u", "s", "t", "o", "m">>)
myEnum == Enum(<<"M", "y", "E", "n", "u", "m">>)

HELLO == <<"H", "E", "L", "L", "O">>
GOODBYE == <<"G", "O", "O", "D", "B", "Y", "E">>
COMPLEX == <<"C", "O", "M", "P", "L", "E", "X">>
complexValue ==
  Obj(<<<<"s", "o", "m", "e">>>>, <<Str(<<"c", "o", "m", "p", "l", "e", "x">>)>>)

\* The values of myEnum: name and internal value.
myEnumValues ==
  <<[name |-> HELLO, value |-> Str(HELLO)],
    [name |-> GOODBYE, value |-> Str(GOODBYE)],
    [name |-> COMPLEX, value |-> complexValue]>>

foo == <<"f", "o", "o">>
bar == <<"b", "a", "r">>
\* Two names no input object type of the schema declares.
baz == <<"b", "a", "z">>
qux == <<"q", "u", "x">>

TestInputObject == InputObject(<<"T", "e", "s", "t">>)
TwoRequired == InputObject(<<"T", "w", "o">>)
Defaults == InputObject(<<"D", "e", "f">>)
BadDefault == InputObject(<<"B", "a", "d">>)
Outer == InputObject(<<"O", "u", "t", "e", "r">>)
MyInputObj == InputObject(<<"M", "y", "O", "b", "j">>)

\* A field descriptor; defaultValue Undefined means the field declares none.
Field(owner, name, type, defaultValue) ==
  [owner |-> owner.name, name |-> name, type |-> type,
   defaultValue |-> defaultValue]

\* type.getFields(), as Object.values enumerates it (declaration order).
getFields(type) ==
  CASE type = TestInputObject ->
         <<Field(type, foo, NonNull(GraphQLInt), Undefined),
           Field(type, bar, GraphQLInt, Undefined)>>
    [] type = TwoRequired ->
         <<Field(type, foo, NonNull(GraphQLInt), Undefined),
           Field(type, bar, NonNull(GraphQLInt), Undefined)>>
    [] type = Defaults ->
         <<Field(type, foo, GraphQLID, Num(1)),
           Field(type, bar, NonNull(GraphQLInt), Num(0))>>
    [] type = BadDefault ->
         <<Field(type, foo, GraphQLInt, Str(<<"a">>)),
           Field(type, bar, GraphQLInt, Undefined)>>
    [] type = Outer ->
         <<Field(type, foo, TestInputObject, Undefined),
           Field(type, bar, ListOf(GraphQLInt), Undefined)>>
    [] type = MyInputObj ->
         <<Field(type, foo, GraphQLFloat, Undefined),
           Field(type, bar, myEnum, Undefined)>>

InputObjectTypes ==
  {TestInputObject, TwoRequired, Defaults, BadDefault, Outer, MyInputObj}

\* fieldDefs[fieldName] is truthy.
isDeclared(type, fieldName) ==
  \E i \in 1..Len(getFields(type)) : getFields(type)[i].name = fieldName

fieldDef(type, fieldName) ==
  getFields(type)[CHOOSE i \in 1..Len(getFields(type)) :
                    getFields(type)[i].name = fieldName]

\* The identity of a field descriptor.
FieldId(field) == <<field.owner, field.name>>

\* The descriptors that declare a default: those that can carry a memo.
DefaultFieldIds ==
  {FieldId(getFields(T)[i]) : i \in 1..2, T \in {Defaults, BadDefault}}
    \ {FieldId(getFields(BadDefault)[2])}

\* type/definition isRequiredInputField.
isRequiredInputField(field) ==
  isNonNullType(field.type) /\ field.defaultValue = Undefined

(***************************************************************************)
(* Leaf types: parseValue                                                  *)
(***************************************************************************)
Returned(v) == [threw |-> "no", value |-> v]
\* A GraphQLError thrown by the leaf type itself.
ThrewGraphQLError(type, v) ==
  [threw |-> "GraphQLError",
   value |-> [p |-> "leaf", type |-> type, v |-> v]]
\* Any other thrown error.
ThrewError(type, v) ==
  [threw |-> "Error", value |-> [p |-> "other", type |-> type, v |-> v]]

isInteger(x) == x.k = "number" /\ x.fin /\ x.twice % 2 = 0

enumHasName(name) ==
  \E i \in 1..Len(myEnumValues) : myEnumValues[i].name = name

enumValueOf(name) ==
  myEnumValues[CHOOSE i \in 1..Len(myEnumValues) :
                 myEnumValues[i].name = name].value

parseValue(type, v) ==
  CASE type = GraphQLInt ->
         IF isInteger(v) THEN Returned(v) ELSE ThrewGraphQLError(type, v)
    [] type = GraphQLFloat ->
         IF v.k = "number" /\ v.fin THEN Returned(v)
         ELSE ThrewGraphQLError(type, v)
    [] type = GraphQLString ->
         IF v.k = "string" THEN Returned(v) ELSE ThrewGraphQLError(type, v)
    [] type = GraphQLBoolean ->
         IF v.k = "boolean" THEN Returned(v) ELSE ThrewGraphQLError(type, v)
    [] type = GraphQLID ->
         IF v.k = "string" THEN Returned(v)
         ELSE IF isInteger(v) THEN Returned(Str(NumberToString(v)))
         ELSE ThrewGraphQLError(type, v)
    [] type = myEnum ->
         IF v.k = "string" /\ enumHasName(v.s) THEN Returned(enumValueOf(v.s))
         ELSE ThrewGraphQLError(type, v)
    [] type = CustomScalar ->
         \* user code: throws a plain Error on booleans, returns undefined
         \* for non-finite numbers, and passes every other value through
         IF v.k = "boolean" THEN ThrewError(type, v)
         ELSE IF v.k = "number" /\ ~v.fin THEN Returned(Undefined)
         ELSE Returned(v)

(***************************************************************************)
(* Value coercion                                                          *)
(***************************************************************************)
\* What a call of the recursive coercion leaves: the returned value
\* (Undefined: "no value"), the input as the call leaves it (a generator it
\* iterated has advanced), and the memo of the field descriptors with the
\* descriptors written during the call.
Ret(value, input, st) == [value |-> value, input |-> input, st |-> st]

\* inputValue with own property `name` replaced (the property exists).
SetProp(x, name, v) ==
  [x EXCEPT !.vals[CHOOSE i \in 1..Len(x.keys) : x.keys[i] = name] = v]

\* coercedValue[name] = v on an object that has no such key yet.
AddProp(x, name, v) == Obj(Append(x.keys, name), Append(x.vals, v))

\* A variant that accepts every provided key; the properties of unknown keys
\* must tell it from hasUndefinedField.
hasUndefinedField_Never(inputValue, type) == FALSE

\* Whether some provided key is not a declared field.
hasUndefinedField(inputValue, type) ==
  \E i \in 1..Len(ObjectKeys(inputValue)) :
    ~isDeclared(type, ObjectKeys(inputValue)[i])

\* The leaf case: a throw of parseValue, of any kind, gives no value.
coerceLeaf(inputValue, type) ==
  LET r == parseValue(type, inputValue)
  IN  IF r.threw = "no" THEN r.value ELSE Undefined

\* A variant that hands out the declared default as it is written; the
\* properties of defaults must tell it from coerceDefaultValue.
coerceDefaultValue_Raw(withDefaultValue, st) ==
  [value |-> withDefaultValue.defaultValue, st |-> st]

RECURSIVE coerceInputValueImpl(_, _, _)
RECURSIVE coerceListItems(_, _, _, _, _)
RECURSIVE coerceFields(_, _, _, _, _)
RECURSIVE coerceDefaultValue(_, _)

\* A variant that never reads the memo: it coerces and writes at every use;
\* the properties of the memo must tell it from coerceDefaultValue.
coerceDefaultValue_NoCache(withDefaultValue, st) ==
  LET id == FieldId(withDefaultValue)
      r == coerceInputValueImpl(withDefaultValue.defaultValue,
                                withDefaultValue.type, st)
  IN  [value |-> r.value,
       st |-> [memo |-> [r.st.memo EXCEPT ![id] = r.value],
               writes |-> Append(r.st.writes, id)]]

\* Memoizes the result of coercing the default value on the descriptor.
coerceDefaultValue(withDefaultValue, st) ==
  LET id == FieldId(withDefaultValue)
      coercedDefaultValue == st.memo[id]
  IN  IF coercedDefaultValue = Undefined
      THEN LET r == coerceInputValueImpl(withDefaultValue.defaultValue,
                                         withDefaultValue.type, st)
           IN  [value |-> r.value,
                st |-> [memo |-> [r.st.memo EXCEPT ![id] = r.value],
                        writes |-> Append(r.st.writes, id)]]
      ELSE [value |-> coercedDefaultValue, st |-> st]

\* The for-of loop over an iterable: index counts the items taken so far.
coerceListItems(inputValue, itemType, index, coercedValue, st) ==
  LET isArray == inputValue.k = "array"
      done == IF isArray THEN index >= Len(inputValue.items)
              ELSE inputValue.items = <<>>
  IN  IF done THEN Ret(Arr(coercedValue), inputValue, st)
      ELSE
        LET itemValue == IF isArray THEN inputValue.items[index + 1]
                         ELSE Head(inputValue.items)
            r == coerceInputValueImpl(itemValue, itemType, st)
            after == IF isArray
                     THEN [inputValue EXCEPT !.items[index + 1] = r.input]
                     ELSE Gen(Tail(inputValue.items))
            \* leaving for-of by `return` closes the iterator: a generator
            \* that is closed yields nothing more
            closed == IF isArray THEN after ELSE Gen(<<>>)
        IN  IF r.value = Undefined THEN Ret(Undefined, closed, r.st)
            ELSE coerceListItems(after, itemType, index + 1,
                                 Append(coercedValue, r.value), r.st)

\* A variant that leaves out a field whose value does not coerce and goes
\* on; the propagation of "no value" must tell it from coerceFields.
coerceFields_SkipInvalid(inputValue, type, i, coercedValue, st) ==
  IF i > Len(getFields(type))
  THEN IF hasUndefinedField(inputValue, type)
       THEN Ret(Undefined, inputValue, st)
       ELSE Ret(coercedValue, inputValue, st)
  ELSE
    LET field == getFields(type)[i]
        fieldValue == GetProp(inputValue, field.name)
    IN  IF fieldValue # Undefined
        THEN LET r == coerceInputValueImpl(fieldValue, field.type, st)
             IN  IF r.value = Undefined
                 THEN coerceFields(inputValue, type, i + 1, coercedValue, r.st)
                 ELSE coerceFields(inputValue, type, i + 1,
                                   AddProp(coercedValue, field.name, r.value),
                                   r.st)
        ELSE IF field.defaultValue # Undefined
        THEN LET d == coerceDefaultValue(field, st)
             IN  coerceFields(inputValue, type, i + 1,
                              AddProp(coercedValue, field.name, d.value), d.st)
        ELSE IF isNonNullType(field.type)
        THEN Ret(Undefined, inputValue, st)
        ELSE coerceFields(inputValue, type, i + 1, coercedValue, st)

\* The loop over the declared fields, from the i-th, then the check that
\* every provided field is defined.
coerceFields(inputValue, type, i, coercedValue, st) ==
  IF i > Len(getFields(type))
  THEN IF hasUndefinedField(inputValue, type)
       THEN Ret(Undefined, inputValue, st)
       ELSE Ret(coercedValue, inputValue, st)
  ELSE
    LET field == getFields(type)[i]
        fieldValue == GetProp(inputValue, field.name)
    IN  IF fieldValue # Undefined
        THEN LET r == coerceInputValueImpl(fieldValue, field.type, st)
                 after == SetProp(inputValue, field.name, r.input)
             IN  IF r.value = Undefined THEN Ret(Undefined, after, r.st)
                 ELSE coerceFields(after, type, i + 1,
                                   AddProp(coercedValue, field.name, r.value),
                                   r.st)
        ELSE IF field.defaultValue # Undefined
        THEN LET d == coerceDefaultValue(field, st)
             IN  coerceFields(inputValue, type, i + 1,
                              AddProp(coercedValue, field.name, d.value), d.st)
        ELSE IF isNonNullType(field.type)
        THEN Ret(Undefined, inputValue, st)
        ELSE coerceFields(inputValue, type, i + 1, coercedValue, st)

coerceInputValueImpl(inputValue, type, st) ==
  IF isNonNullType(type)
  THEN IF isNullish(inputValue) THEN Ret(Undefined, inputValue, st)
       ELSE coerceInputValueImpl(inputValue, type.ofType, st)
  ELSE IF isNullish(inputValue) THEN Ret(Null, inputValue, st)
  ELSE IF isListType(type)
  THEN IF isIterableObject(inputValue)
       THEN coerceListItems(inputValue, type.ofType, 0, <<>>, st)
       ELSE LET r == coerceInputValueImpl(inputValue, type.ofType, st)
            IN  IF r.value = Undefined THEN r
                ELSE [r EXCEPT !.value = Arr(<<r.value>>)]
  ELSE IF isInputObjectType(type)
  THEN IF ~isObjectLike(inputValue) THEN Ret(Undefined, inputValue, st)
       ELSE coerceFields(inputValue, type, 1, Obj(<<>>, <<>>), st)
  ELSE Ret(coerceLeaf(inputValue, type), inputValue, st)

(***************************************************************************)
(* Value validation                                                        *)
(***************************************************************************)
\* jsutils/Path: the chain of keys (and type names) from the root; the
\* undefined path is the empty chain.
addPath(path, key, typename) ==
  Append(path, [key |-> key, typename |-> typename])

pathToArray(path) == [i \in 1..Len(path) |-> path[i].key]

\* The parts a message is concatenated from.
Lit(text) == [p |-> "text", text |-> text]
Chars(c) == [p |-> "chars", c |-> c]
InspectType(type) == [p |-> "inspectType", type |-> type]
InspectValue(v) == [p |-> "inspect", v |-> v]
PrintPathArray(path) == [p |-> "printPathArray", path |-> path]
DidYouMean(fieldName, type) ==
  [p |-> "didYouMean", c |-> fieldName, type |-> type]

GraphQLError(message, originalError) ==
  [message |-> message, originalError |-> originalError]

\* The callbacks a caller passes: one that records every error and returns,
\* one that throws the error of its n-th invocation, and defaultOnError.
Collect == [cb |-> "collect", n |-> 0]
ThrowAt(n) == [cb |-> "throwAt", n |-> n]
DefaultOnError == [cb |-> "default", n |-> 1]

\* The walk so far: the invocations of onError, and what it threw, if it did.
NoCalls == [calls |-> <<>>, thrown |-> FALSE, error |-> Undefined]

defaultOnError(path, invalidValue, error) ==
  LET errorPrefix ==
        <<Lit("Invalid value "), InspectValue(invalidValue)>>
          \o (IF Len(path) > 0
              THEN <<Lit(" at \"value"), PrintPathArray(path), Lit("\"")>>
              ELSE <<>>)
  IN  [error EXCEPT !.message = errorPrefix \o <<Lit(": ")>> \o error.message]

\* One invocation onError(path, invalidValue, error).
callOnError(onError, path, invalidValue, error, vs) ==
  LET calls == Append(vs.calls, [path |-> path, invalidValue |-> invalidValue,
                                 error |-> error])
  IN  IF onError.cb = "default"
      THEN [calls |-> calls, thrown |-> TRUE,
            error |-> defaultOnError(path, invalidValue, error)]
      ELSE IF onError.cb = "throwAt" /\ Len(calls) = onError.n
      THEN [calls |-> calls, thrown |-> TRUE, error |-> error]
      ELSE [vs EXCEPT !.calls = calls]

reportInvalidValue(onError, message, value, path, originalError, vs) ==
  callOnError(onError, pathToArray(path), value,
              GraphQLError(message, originalError), vs)

notNullMessage(type) ==
  <<Lit("Expected non-nullable type \""), InspectType(type),
    Lit("\" not to be null.")>>

notObjectMessage(type) ==
  <<Lit("Expected type \""), Chars(type.name), Lit("\" to be an object.")>>

notProvidedMessage(field) ==
  <<Lit("Field \""), Chars(field.name), Lit("\" of required type \""),
    InspectType(field.type), Lit("\" was not provided.")>>

notDefinedMessage(fieldName, type) ==
  <<Lit("Field \""), Chars(fieldName), Lit("\" is not defined by type \""),
    Chars(type.name), Lit("\"."), DidYouMean(fieldName, type)>>

expectedTypeMessage(type, caughtError) ==
  <<Lit("Expected type \""), Chars(type.name), Lit("\".")>>
    \o (IF caughtError # Undefined THEN <<Lit(" "), caughtError>> ELSE <<>>)

\* The provided keys that are not declared fields, in Object.keys order.
unknownFieldNames(inputValue, type) ==
  LET undeclared(fieldName) == ~isDeclared(type, fieldName)
  IN  SelectSeq(ObjectKeys(inputValue), undeclared)

\* The leaf case: parseValue runs inside try/catch, onError outside of it.
validateLeaf(inputValue, type, onError, path, vs) ==
  LET r == parseValue(type, inputValue)
      caughtError == IF r.threw = "no" THEN Undefined ELSE r.value
      result == IF r.threw = "no" THEN r.value ELSE Undefined
  IN  IF r.threw = "GraphQLError"
      THEN callOnError(onError, pathToArray(path), inputValue,
                       GraphQLError(<<caughtError>>, Undefined), vs)
      ELSE IF result = Undefined
      THEN reportInvalidValue(onError, expectedTypeMessage(type, caughtError),
                              inputValue, path, caughtError, vs)
      ELSE vs

RECURSIVE validateInputValueImpl(_, _, _, _, _)
RECURSIVE validateListItems(_, _, _, _, _, _)
RECURSIVE validateFields(_, _, _, _, _, _)
RECURSIVE validateKeys(_, _, _, _, _, _)

\* A variant that reports the first key that is not defined and no other; the
\* properties of the validation walk must tell it from validateKeys.
validateKeys_FirstOnly(inputValue, type, onError, path, i, vs) ==
  IF i > Len(unknownFieldNames(inputValue, type)) THEN vs
  ELSE reportInvalidValue(onError,
                          notDefinedMessage(
                            unknownFieldNames(inputValue, type)[i], type),
                          inputValue, path, Undefined, vs)

\* The for-of loop over the items still to come; a throw of onError ends it.
validateListItems(items, itemType, onError, path, index, vs) ==
  IF items = <<>> THEN vs
  ELSE LET vs1 == validateInputValueImpl(Head(items), itemType, onError,
                                         addPath(path, Num(index), Undefined),
                                         vs)
       IN  IF vs1.thrown THEN vs1
           ELSE validateListItems(Tail(items), itemType, onError, path,
                                  index + 1, vs1)

\* The loop reporting the keys that are not defined, from the i-th.
validateKeys(inputValue, type, onError, path, i, vs) ==
  IF i > Len(unknownFieldNames(inputValue, type)) THEN vs
  ELSE LET fieldName == unknownFieldNames(inputValue, type)[i]
           vs1 == reportInvalidValue(onError,
                                     notDefinedMessage(fieldName, type),
                                     inputValue, path, Undefined, vs)
       IN  IF vs1.thrown THEN vs1
           ELSE validateKeys(inputValue, type, onError, path, i + 1, vs1)

\* A variant that takes a Non-Null field left out for not provided, default
\* or not; the agreement of validation with coercion must tell it from
\* validateFields.
validateFields_IgnoresDefault(inputValue, type, onError, path, i, vs) ==
  IF i > Len(getFields(type))
  THEN validateKeys(inputValue, type, onError, path, 1, vs)
  ELSE
    LET field == getFields(type)[i]
        fieldValue == GetProp(inputValue, field.name)
        vs1 == IF fieldValue # Undefined
               THEN validateInputValueImpl(
                      fieldValue, field.type, onError,
                      addPath(path, Str(field.name), Str(type.name)), vs)
               ELSE IF isNonNullType(field.type)
               THEN reportInvalidValue(onError, notProvidedMessage(field),
                                       inputValue, path, Undefined, vs)
               ELSE vs
    IN  IF vs1.thrown THEN vs1
        ELSE validateFields(inputValue, type, onError, path, i + 1, vs1)

\* The loop over the declared fields, from the i-th, then the keys.
validateFields(inputValue, type, onError, path, i, vs) ==
  IF i > Len(getFields(type))
  THEN validateKeys(inputValue, type, onError, path, 1, vs)
  ELSE
    LET field == getFields(type)[i]
        fieldValue == GetProp(inputValue, field.name)
        vs1 == IF fieldValue # Undefined
               THEN validateInputValueImpl(
                      fieldValue, field.type, onError,
                      addPath(path, Str(field.name), Str(type.name)), vs)
               ELSE IF isRequiredInputField(field)
               THEN reportInvalidValue(onError, notProvidedMessage(field),
                                       inputValue, path, Undefined, vs)
               ELSE vs
    IN  IF vs1.thrown THEN vs1
        ELSE validateFields(inputValue, type, onError, path, i + 1, vs1)

validateInputValueImpl(inputValue, type, onError, path, vs) ==
  IF isNonNullType(type)
  THEN IF isNullish(inputValue)
       THEN reportInvalidValue(onError, notNullMessage(type), inputValue,
                               path, Undefined, vs)
       ELSE validateInputValueImpl(inputValue, type.ofType, onError, path, vs)
  ELSE IF isNullish(inputValue) THEN vs
  ELSE IF isListType(type)
  THEN IF isIterableObject(inputValue)
       THEN validateListItems(inputValue.items, type.ofType, onError, path,
                              0, vs)
       ELSE validateInputValueImpl(inputValue, type.ofType, onError, path, vs)
  ELSE IF isInputObjectType(type)
  THEN IF ~isObjectLike(inputValue)
       THEN reportInvalidValue(onError, notObjectMessage(type), inputValue,
                               path, Undefined, vs)
       ELSE validateFields(inputValue, type, onError, path, 1, vs)
  ELSE validateLeaf(inputValue, type, onError, path, vs)

validateInputValue(inputValue, type, onError) ==
  validateInputValueImpl(inputValue, type, onError, <<>>, NoCalls)

\* coerceInputValue: what the recursive coercion yields (coercedValue), what
\* onError was called with and threw (validation runs on the input as the
\* coercion left it), the value returned unless onError threw, and the memo.
coerceInputValue(inputValue, type, onError, st) ==
  LET r == coerceInputValueImpl(inputValue, type, st)
      vs == IF r.value = Undefined
            THEN validateInputValue(r.input, type, onError)
            ELSE NoCalls
  IN  [value |-> IF vs.thrown THEN Undefined ELSE r.value,
       coercedValue |-> r.value,
       calls |-> vs.calls, thrown |-> vs.thrown, error |-> vs.error,
       st |-> r.st]

(***************************************************************************)
(* Value literals (AST nodes)                                              *)
(***************************************************************************)
VariableNode(name) == [kind |-> "Variable", name |-> name]
NullNode == [kind |-> "NullValue"]
IntNode(value) == [kind |-> "IntValue", value |-> value]
FloatNode(value) == [kind |-> "FloatValue", value |-> value]
StringNode(value) == [kind |-> "StringValue", value |-> value]
EnumNode(value) == [kind |-> "EnumValue", value |-> value]
BooleanNode(b) == [kind |-> "BooleanValue", bvalue |-> b]
ListNode(values) == [kind |-> "ListValue", values |-> values]
ObjectNode(fields) == [kind |-> "ObjectValue", fields |-> fields]
\* name stands for the Name node { kind: Kind.NAME, value: name }.
ObjectField(name, value) ==
  [kind |-> "ObjectField", name |-> name, value |-> value]

\* A variant that admits leading zeros; the properties of string nodes must
\* tell it from integerStringRegExp.
integerStringRegExp_LeadingZeros(s) ==
  LET body == IF Len(s) > 0 /\ s[1] = "-" THEN Tail(s) ELSE s
  IN  Len(body) > 0 /\ AllIn(body, Digits)

\* integerStringRegExp.test(s): /^-?(?:0|[1-9][0-9]*)$/
integerStringRegExp(s) ==
  LET body == IF Len(s) > 0 /\ s[1] = "-" THEN Tail(s) ELSE s
  IN  /\ Len(body) > 0
      /\ AllIn(body, Digits)
      /\ (body[1] # "0" \/ Len(body) = 1)

\* nameRegExp.test(s): /^[_a-zA-Z][_a-zA-Z0-9]*$/
nameRegExp(s) ==
  /\ Len(s) > 0
  /\ s[1] \in Letters \cup {"_"}
  /\ AllIn(Tail(s), Letters \cup Digits \cup {"_"})

\* parseInt / parseFloat of the text of an IntValue or FloatValue node, as
\* String(number) writes it: sign, digits, and ".5" for a half.
StrToNumber(s) ==
  LET neg == s[1] = "-"
      body == IF neg THEN Tail(s) ELSE s
      half == Len(body) > 2 /\ body[Len(body) - 1] = "."
      int == IF half THEN SubSeq(body, 1, Len(body) - 2) ELSE body
      a == 2 * StrToNat(int) + (IF half THEN 1 ELSE 0)
  IN  Half(IF neg THEN 0 - a ELSE a)

\* keyMap(valueNode.fields, field => field.name.value)[name]: the last
\* field of that name, Undefined when there is none.
keyMapGet(fields, name) ==
  IF \E i \in 1..Len(fields) : fields[i].name = name
  THEN LET last == CHOOSE i \in 1..Len(fields) :
                     /\ fields[i].name = name
                     /\ \A j \in (i + 1)..Len(fields) : fields[j].name # name
       IN  fields[last]
  ELSE Undefined

\* obj[name] = v: replaces the value of an existing key, else adds the key.
PutProp(x, name, v) ==
  IF \E i \in 1..Len(x.keys) : x.keys[i] = name THEN SetProp(x, name, v)
  ELSE AddProp(x, name, v)

\* utilities/valueFromASTUntyped, the literal parser of a scalar that
\* declares none.
RECURSIVE valueFromASTUntyped(_, _)
RECURSIVE untypedFields(_, _, _, _)
untypedFields(fields, variables, i, acc) ==
  IF i > Len(fields) THEN acc
  ELSE untypedFields(fields, variables, i + 1,
         PutProp(acc, fields[i].name,
                 valueFromASTUntyped(fields[i].value, variables)))

valueFromASTUntyped(valueNode, variables) ==
  CASE valueNode.kind = "NullValue" -> Null
    [] valueNode.kind \in {"IntValue", "FloatValue"} ->
         StrToNumber(valueNode.value)
    [] valueNode.kind \in {"StringValue", "EnumValue"} -> Str(valueNode.value)
    [] valueNode.kind = "BooleanValue" -> Bool(valueNode.bvalue)
    [] valueNode.kind = "ListValue" ->
         Arr([i \in 1..Len(valueNode.values) |->
               valueFromASTUntyped(valueNode.values[i], variables)])
    [] valueNode.kind = "ObjectValue" ->
         untypedFields(valueNode.fields, variables, 1, Obj(<<>>, <<>>))
    [] valueNode.kind = "Variable" ->
         IF isNullish(variables) THEN Undefined
         ELSE GetProp(variables, valueNode.name)

parseLiteral(type, valueNode, variables) ==
  CASE type = GraphQLInt ->
         IF valueNode.kind = "IntValue"
         THEN Returned(StrToNumber(valueNode.value))
         ELSE ThrewGraphQLError(type, Undefined)
    [] type = GraphQLFloat ->
         IF valueNode.kind \in {"IntValue", "FloatValue"}
         THEN Returned(StrToNumber(valueNode.value))
         ELSE ThrewGraphQLError(type, Undefined)
    [] type = GraphQLString ->
         IF valueNode.kind = "StringValue" THEN Returned(Str(valueNode.value))
         ELSE ThrewGraphQLError(type, Undefined)
    [] type = GraphQLBoolean ->
         IF valueNode.kind = "BooleanValue"
         THEN Returned(Bool(valueNode.bvalue))
         ELSE ThrewGraphQLError(type, Undefined)
    [] type = GraphQLID ->
         IF valueNode.kind \in {"StringValue", "IntValue"}
         THEN Returned(Str(valueNode.value))
         ELSE ThrewGraphQLError(type, Undefined)
    [] type = myEnum ->
         IF valueNode.kind = "EnumValue" /\ enumHasName(valueNode.value)
         THEN Returned(enumValueOf(valueNode.value))
         ELSE ThrewGraphQLError(type, Undefined)
    [] type = CustomScalar ->
         parseValue(type, valueFromASTUntyped(valueNode, variables))

(***************************************************************************)
(* Literal coercion                                                        *)
(***************************************************************************)
\* A variant that takes a variable set to null for a missing one; the
\* properties of variable references must tell it from isMissingVariable.
isMissingVariable_OrNull(valueNode, variables) ==
  /\ valueNode.kind = "Variable"
  /\ (isNullish(variables) \/ isNullish(GetProp(variables, valueNode.name)))

\* Whether valueNode is a variable not defined in the set of variables.
isMissingVariable(valueNode, variables) ==
  /\ valueNode.kind = "Variable"
  /\ (isNullish(variables) \/ GetProp(variables, valueNode.name) = Undefined)

\* The variable case: the stored value, unless missing or null for non-null.
coerceVariable(valueNode, type, variables) ==
  IF isNullish(variables) \/ isMissingVariable(valueNode, variables)
  THEN Undefined
  ELSE LET variableValue == GetProp(variables, valueNode.name)
       IN  IF variableValue = Null /\ isNonNullType(type) THEN Undefined
           ELSE variableValue

\* The leaf case: a throw of parseLiteral gives no value.
coerceLeafLiteral(valueNode, type, variables) ==
  LET r == parseLiteral(type, valueNode, variables)
  IN  IF r.threw = "no" THEN r.value ELSE Undefined

RECURSIVE coerceInputLiteral(_, _, _, _)
RECURSIVE coerceLiteralItems(_, _, _, _, _, _)
RECURSIVE coerceLiteralFields(_, _, _, _, _, _)

\* A variant that takes a missing variable for null whatever the item type;
\* the properties of list literals must tell it from coerceLiteralItems.
coerceLiteralItems_MissingIsNull(values, itemType, variables, i, coercedValue, st) ==
  IF i > Len(values) THEN [value |-> Arr(coercedValue), st |-> st]
  ELSE
    LET itemNode == values[i]
        r == coerceInputLiteral(itemNode, itemType, variables, st)
    IN  IF r.value = Undefined
        THEN IF isMissingVariable(itemNode, variables)
             THEN coerceLiteralItems(values, itemType, variables, i + 1,
                                     Append(coercedValue, Null), r.st)
             ELSE [value |-> Undefined, st |-> r.st]
        ELSE coerceLiteralItems(values, itemType, variables, i + 1,
                                Append(coercedValue, r.value), r.st)

\* The loop over the item nodes, from the i-th.
coerceLiteralItems(values, itemType, variables, i, coercedValue, st) ==
  IF i > Len(values) THEN [value |-> Arr(coercedValue), st |-> st]
  ELSE
    LET itemNode == values[i]
        r == coerceInputLiteral(itemNode, itemType, variables, st)
    IN  IF r.value = Undefined
        THEN IF isMissingVariable(itemNode, variables)
                /\ ~isNonNullType(itemType)
             THEN coerceLiteralItems(values, itemType, variables, i + 1,
                                     Append(coercedValue, Null), r.st)
             ELSE [value |-> Undefined, st |-> r.st]
        ELSE coerceLiteralItems(values, itemType, variables, i + 1,
                                Append(coercedValue, r.value), r.st)

\* A variant that rejects a literal with a field the type does not declare,
\* as value coercion does; the properties of unknown fields of literals must
\* tell it from coerceLiteralFields.
coerceLiteralFields_RejectsUnknown(valueNode, type, variables, i, coercedValue, st) ==
  IF \E j \in 1..Len(valueNode.fields) :
       ~isDeclared(type, valueNode.fields[j].name)
  THEN [value |-> Undefined, st |-> st]
  ELSE IF i > Len(getFields(type)) THEN [value |-> coercedValue, st |-> st]
  ELSE
    LET field == getFields(type)[i]
        fieldNode == keyMapGet(valueNode.fields, field.name)
    IN  IF fieldNode # Undefined
           /\ ~isMissingVariable(fieldNode.value, variables)
        THEN LET r == coerceInputLiteral(fieldNode.value, field.type,
                                         variables, st)
             IN  IF r.value = Undefined THEN r
                 ELSE coerceLiteralFields(
                        valueNode, type, variables, i + 1,
                        AddProp(coercedValue, field.name, r.value), r.st)
        ELSE IF field.defaultValue # Undefined
        THEN LET d == coerceDefaultValue(field, st)
             IN  coerceLiteralFields(
                   valueNode, type, variables, i + 1,
                   AddProp(coercedValue, field.name, d.value), d.st)
        ELSE IF isNonNullType(field.type)
        THEN [value |-> Undefined, st |-> st]
        ELSE coerceLiteralFields(valueNode, type, variables, i + 1,
                                 coercedValue, st)

\* A variant that takes a field set to a missing variable for a supplied
\* one; the properties of object literals must tell it from
\* coerceLiteralFields.
coerceLiteralFields_MissingIsSupplied(valueNode, type, variables, i, coercedValue, st) ==
  IF i > Len(getFields(type)) THEN [value |-> coercedValue, st |-> st]
  ELSE
    LET field == getFields(type)[i]
        fieldNode == keyMapGet(valueNode.fields, field.name)
    IN  IF fieldNode # Undefined
        THEN LET r == coerceInputLiteral(fieldNode.value, field.type,
                                         variables, st)
             IN  IF r.value = Undefined THEN r
                 ELSE coerceLiteralFields(
                        valueNode, type, variables, i + 1,
                        AddProp(coercedValue, field.name, r.value), r.st)
        ELSE IF field.defaultValue # Undefined
        THEN LET d == coerceDefaultValue(field, st)
             IN  coerceLiteralFields(
                   valueNode, type, variables, i + 1,
                   AddProp(coercedValue, field.name, d.value), d.st)
        ELSE IF isNonNullType(field.type)
        THEN [value |-> Undefined, st |-> st]
        ELSE coerceLiteralFields(valueNode, type, variables, i + 1,
                                 coercedValue, st)

\* The loop over the declared fields, from the i-th.
coerceLiteralFields(valueNode, type, variables, i, coercedValue, st) ==
  IF i > Len(getFields(type)) THEN [value |-> coercedValue, st |-> st]
  ELSE
    LET field == getFields(type)[i]
        fieldNode == keyMapGet(valueNode.fields, field.name)
    IN  IF fieldNode # Undefined
           /\ ~isMissingVariable(fieldNode.value, variables)
        THEN LET r == coerceInputLiteral(fieldNode.value, field.type,
                                         variables, st)
             IN  IF r.value = Undefined THEN r
                 ELSE coerceLiteralFields(
                        valueNode, type, variables, i + 1,
                        AddProp(coercedValue, field.name, r.value), r.st)
        ELSE IF field.defaultValue # Undefined
        THEN LET d == coerceDefaultValue(field, st)
             IN  coerceLiteralFields(
                   valueNode, type, variables, i + 1,
                   AddProp(coercedValue, field.name, d.value), d.st)
        ELSE IF isNonNullType(field.type)
        THEN [value |-> Undefined, st |-> st]
        ELSE coerceLiteralFields(valueNode, type, variables, i + 1,
                                 coercedValue, st)

coerceInputLiteral(valueNode, type, variables, st) ==
  IF valueNode.kind = "Variable"
  THEN [value |-> coerceVariable(valueNode, type, variables), st |-> st]
  ELSE IF isNonNullType(type)
  THEN IF valueNode.kind = "NullValue" THEN [value |-> Undefined, st |-> st]
       ELSE coerceInputLiteral(valueNode, type.ofType, variables, st)
  ELSE IF valueNode.kind = "NullValue" THEN [value |-> Null, st |-> st]
  ELSE IF isListType(type)
  THEN IF valueNode.kind = "ListValue"
       THEN coerceLiteralItems(valueNode.values, type.ofType, variables, 1,
                               <<>>, st)
       ELSE LET r == coerceInputLiteral(valueNode, type.ofType, variables, st)
            IN  IF r.value = Undefined THEN r
                ELSE [r EXCEPT !.value = Arr(<<r.value>>)]
  ELSE IF isInputObjectType(type)
  THEN IF valueNode.kind # "ObjectValue"
       THEN [value |-> Undefined, st |-> st]
       ELSE coerceLiteralFields(valueNode, type, variables, 1,
                                Obj(<<>>, <<>>), st)
  ELSE [value |-> coerceLeafLiteral(valueNode, type, variables), st |-> st]

(***************************************************************************)
(* AST reconstruction                                                      *)
(***************************************************************************)
\* The TypeError astFromValue throws for a value with no literal form.
TypeError(value) == [kind |-> "TypeError", v |-> value]

isThrown(node) == node.kind = "TypeError"

\* The first throw among the nodes of a mapped array, else `node`.
firstThrown(nodes, node) ==
  IF \E i \in 1..Len(nodes) : isThrown(nodes[i])
  THEN nodes[CHOOSE i \in 1..Len(nodes) :
               /\ isThrown(nodes[i])
               /\ \A j \in 1..(i - 1) : ~isThrown(nodes[j])]
  ELSE node

\* fieldDefs?.[fieldName]?.type
fieldTypeHint(namedType, fieldName) ==
  IF namedType # NoType /\ isInputObjectType(namedType)
     /\ isDeclared(namedType, fieldName)
  THEN fieldDef(namedType, fieldName).type
  ELSE NoType

\* A variant that turns down a string that names no value of the enum type
\* it is hinted with; the properties of type hints must tell it from
\* astFromString.
astFromString_ChecksEnum(value, namedType) ==
  IF isEnumType(namedType)
  THEN IF enumHasName(value) THEN EnumNode(value) ELSE NullNode
  ELSE IF namedType = GraphQLID /\ integerStringRegExp(value)
  THEN IntNode(value)
  ELSE StringNode(value)

\* A variant that writes every string as a String node; the round trip must
\* tell it from astFromString.
astFromString_AlwaysString(value, namedType) == StringNode(value)

\* The node of a string value: the type only picks the kind.
astFromString(value, namedType) ==
  IF isEnumType(namedType) /\ nameRegExp(value) THEN EnumNode(value)
  ELSE IF namedType = GraphQLID /\ integerStringRegExp(value)
  THEN IntNode(value)
  ELSE StringNode(value)

\* The node of a number value.
astFromNumber(value) ==
  IF ~value.fin THEN NullNode
  ELSE LET stringNum == NumberToString(value)
       IN  IF integerStringRegExp(stringNum) THEN IntNode(stringNum)
           ELSE FloatNode(stringNum)

RECURSIVE astFromValue(_, _)
astFromValue(value, type) ==
  LET namedType == IF type = NoType THEN NoType ELSE getNamedType(type)
  IN  IF isNullish(value) THEN NullNode
      ELSE IF isIterableObject(value)
      THEN LET values == [i \in 1..Len(value.items) |->
                           astFromValue(value.items[i], namedType)]
           IN  firstThrown(values, ListNode(values))
      ELSE IF isObjectLike(value)
      THEN LET fields ==
                 [i \in 1..Len(value.keys) |->
                   ObjectField(value.keys[i],
                     astFromValue(value.vals[i],
                                  fieldTypeHint(namedType, value.keys[i])))]
               values == [i \in 1..Len(fields) |-> fields[i].value]
           IN  firstThrown(values, ObjectNode(fields))
      ELSE IF value.k = "boolean" THEN BooleanNode(value.b)
      ELSE IF value.k = "number" THEN astFromNumber(value)
      ELSE IF value.k = "string" THEN astFromString(value.s, namedType)
      ELSE TypeError(value)

(***************************************************************************)
(* The program: calls of the four operations on one schema                 *)
(***************************************************************************)
VARIABLES
  coercedDefaultValue,  \* the _coercedDefaultValue of each descriptor
  call                  \* the call that has just returned or thrown, if any

vars == <<coercedDefaultValue, call>>

\* Sequences over S of length at most n.
SeqsUpTo(S, n) == UNION {[1..m -> S] : m \in 0..n}

\* Sequences of distinct elements of S of length at most n.
DistinctSeqsUpTo(S, n) ==
  {s \in SeqsUpTo(S, n) : \A i, j \in 1..Len(s) : i # j => s[i] # s[j]}

\* The values tried as list items and as property values.
LeafValues == {Null, Undefined, Num(1), Str(<<"a">>)}

Arrays == {Arr(s) : s \in SeqsUpTo(LeafValues, MaxLen)}

Generators == {Gen(s) : s \in SeqsUpTo({Num(1), Str(<<"a">>)}, MaxLen)}

Objects ==
  UNION {{Obj(ks, vs) : vs \in [1..Len(ks) -> LeafValues]} :
           ks \in DistinctSeqsUpTo({foo, bar, baz}, MaxKeys)}
    \cup {Obj(<<baz, qux>>, <<Null, Num(1)>>),
          Obj(<<qux, foo, baz>>, <<Undefined, Num(1), Str(<<"a">>)>>),
          Obj(<<qux, bar, foo>>, <<Num(1), Str(<<"a">>), Str(<<"a">>)>>)}

ScalarValues ==
  LeafValues \cup
    {Bool(TRUE), Num(0), Num(-1), Half(3), NaN, Str(<<"1">>),
     Str(<<"0", "1">>), Str(HELLO), Str(COMPLEX), Str(<<"a", " ", "b">>), Sym}

SmallObjects ==
  {Obj(<<>>, <<>>), Obj(<<foo>>, <<Num(1)>>), Obj(<<bar>>, <<Str(<<"a">>)>>),
   Obj(<<foo, baz>>, <<Num(1), Null>>)}

SmallLists ==
  {Arr(<<>>), Arr(<<Num(1)>>), Arr(<<Str(<<"a">>), Null>>),
   Gen(<<Num(1), Str(<<"a">>)>>), Num(1)}

NestedValues ==
  {Arr(s) : s \in SeqsUpTo(SmallObjects, MaxLen) \ {<<>>}}
    \cup {Arr(s) : s \in SeqsUpTo(SmallLists, MaxLen) \ {<<>>}}
    \cup {Obj(<<foo, bar>>, <<o, l>>) : o \in SmallObjects, l \in SmallLists}
    \cup {Obj(<<bar, foo>>, <<Str(HELLO), x>>) : x \in {Num(1), Half(3), NaN}}

InputValues == ScalarValues \cup Arrays \cup Generators \cup Objects
                 \cup NestedValues

InputTypes ==
  {GraphQLInt, NonNull(GraphQLInt), ListOf(GraphQLInt),
   ListOf(NonNull(GraphQLInt)), NonNull(ListOf(ListOf(GraphQLInt))),
   GraphQLString, GraphQLBoolean, GraphQLFloat, GraphQLID, myEnum,
   CustomScalar, TestInputObject, NonNull(TestInputObject),
   ListOf(TestInputObject), TwoRequired, Defaults, BadDefault, Outer,
   MyInputObj, ListOf(Defaults), ListOf(BadDefault)}

\* The types the flat objects are tried against: every input object type,
\* and one type of each other shape.
TypesForObjects ==
  {T \in InputTypes : isInputObjectType(getNamedType(T))}
    \cup {GraphQLInt, ListOf(GraphQLInt), CustomScalar}

\* The (value, type) pairs of the calls.
Inputs ==
  ((InputValues \ Objects) \X InputTypes) \cup (Objects \X TypesForObjects)

OnErrorCallbacks == {Collect, DefaultOnError, ThrowAt(2)}

vNode == VariableNode(<<"v">>)
LeafNodes == {NullNode, IntNode(<<"1">>), vNode}

ValueNodes ==
  LeafNodes
    \cup {StringNode(<<"a">>), EnumNode(HELLO), EnumNode(COMPLEX),
          BooleanNode(TRUE), FloatNode(<<"1", ".", "5">>),
          VariableNode(<<"w">>)}
    \cup {ListNode(s) :
            s \in SeqsUpTo(LeafNodes \cup {StringNode(<<"a">>)}, MaxLen)}
    \cup UNION {{ObjectNode([i \in 1..Len(ks) |-> ObjectField(ks[i], vs[i])]) :
                   vs \in [1..Len(ks) -> LeafNodes]} :
                  ks \in DistinctSeqsUpTo({foo, bar, baz}, MaxKeys)}
    \cup {ObjectNode(<<ObjectField(foo, StringNode(<<"a">>)),
                       ObjectField(foo, IntNode(<<"1">>))>>),
          ObjectNode(<<ObjectField(foo, ObjectNode(<<ObjectField(foo, vNode)>>)),
                       ObjectField(bar, ListNode(<<vNode>>))>>),
          ListNode(<<ListNode(<<vNode, IntNode(<<"1">>)>>)>>)}

\* The variable mappings tried: none, and objects defining v or not.
VariableMaps ==
  {Undefined, Null, Obj(<<>>, <<>>)}
    \cup {Obj(<<<<"v">>>>, <<x>>) :
            x \in {Undefined, Null, Num(1), Arr(<<Undefined>>)}}

\* The strings tried at the edges of the two syntaxes, and the hints they
\* are tried under, bare and wrapped.
StringValues ==
  {Str(<<>>), Str(<<"-">>), Str(<<"0">>), Str(<<"-", "1">>),
   Str(<<"-", "0", "1">>), Str(<<"1", "a">>), Str(<<"_", "1">>),
   Str(<<"1", "2">>), Str(<<"0", "1">>), Str(HELLO), Str(<<"a", " ", "b">>)}

StringHints ==
  {NoType, GraphQLID, NonNull(GraphQLID), ListOf(GraphQLID), myEnum,
   NonNull(ListOf(myEnum)), GraphQLString, GraphQLInt, CustomScalar}

HintedStrings ==
  (StringValues \cup {Arr(<<x>>) : x \in StringValues}) \X StringHints

NoCall == [op |-> "none"]

Init ==
  /\ coercedDefaultValue = [id \in DefaultFieldIds |-> Undefined]
  /\ call = NoCall

\* The memo as a call finds it.
Entry == [memo |-> coercedDefaultValue, writes |-> <<>>]

CoerceInputValue ==
  /\ call = NoCall
  /\ \E in \in Inputs, onError \in OnErrorCallbacks :
       \E r \in {coerceInputValue(in[1], in[2], onError, Entry)} :
           /\ call' = [op |-> "coerceInputValue", inputValue |-> in[1],
                       type |-> in[2], onError |-> onError,
                       before |-> coercedDefaultValue,
                       coercedValue |-> r.coercedValue,
                       value |-> r.value, calls |-> r.calls,
                       thrown |-> r.thrown, error |-> r.error,
                       writes |-> r.st.writes]
           /\ coercedDefaultValue' = r.st.memo

ValidateInputValue ==
  /\ call = NoCall
  /\ \E in \in Inputs, onError \in OnErrorCallbacks :
       \E vs \in {validateInputValue(in[1], in[2], onError)} :
           call' = [op |-> "validateInputValue", inputValue |-> in[1],
                    type |-> in[2], onError |-> onError,
                    calls |-> vs.calls, thrown |-> vs.thrown,
                    error |-> vs.error]
  /\ UNCHANGED coercedDefaultValue

CoerceInputLiteral ==
  /\ call = NoCall
  /\ \E valueNode \in ValueNodes, type \in InputTypes,
        variables \in VariableMaps :
       \E r \in {coerceInputLiteral(valueNode, type, variables, Entry)} :
           /\ call' = [op |-> "coerceInputLiteral", valueNode |-> valueNode,
                       type |-> type, variables |-> variables,
                       before |-> coercedDefaultValue,
                       value |-> r.value, writes |-> r.st.writes]
           /\ coercedDefaultValue' = r.st.memo

AstFromValue ==
  /\ call = NoCall
  /\ \E in \in Inputs \cup (InputValues \X {NoType}) \cup HintedStrings :
       call' = [op |-> "astFromValue", value |-> in[1], type |-> in[2],
                node |-> astFromValue(in[1], in[2])]
  /\ UNCHANGED coercedDefaultValue

\* The caller takes the result; the schema, with its memo, lives on.
Return ==
  /\ call # NoCall
  /\ call' = NoCall
  /\ UNCHANGED coercedDefaultValue

Next ==
  \/ CoerceInputValue
  \/ ValidateInputValue
  \/ CoerceInputLiteral
  \/ AstFromValue
  \/ Return

Spec == Init /\ [][Next]_vars

\* The calls on values alone, and the calls that read or write literals.
NextValue == CoerceInputValue \/ ValidateInputValue \/ Return
SpecValue == Init /\ [][NextValue]_vars

NextLiteral == CoerceInputLiteral \/ AstFromValue \/ Return
SpecLiteral == Init /\ [][NextLiteral]_vars

(***************************************************************************)
(* Properties                                                              *)
(***************************************************************************)
\* The memo of a schema no default of which has been coerced yet.
Fresh == [memo |-> [id \in DefaultFieldIds |-> Undefined], writes |-> <<>>]

Range(s) == {s[i] : i \in 1..Len(s)}

\* The names an input object type declares.
DeclaredNames(type) == {getFields(type)[i].name : i \in 1..Len(getFields(type))}

\* The own keys of v that type does not declare.
UnknownKeys(v, type) == Range(ObjectKeys(v)) \ DeclaredNames(type)

\* Whether a generator occurs in v.
RECURSIVE HasGenerator(_)
HasGenerator(v) ==
  \/ v.k = "generator"
  \/ v.k = "array" /\ \E i \in 1..Len(v.items) : HasGenerator(v.items[i])
  \/ v.k = "object" /\ \E i \in 1..Len(v.vals) : HasGenerator(v.vals[i])

\* Whether onError was called for key `fieldName` not being defined by the
\* type, on the value at the root.
IsNotDefinedCall(c, fieldName) ==
  /\ c.path = <<>>
  /\ Len(c.error.message) >= 3
  /\ c.error.message[2] = Chars(fieldName)
  /\ c.error.message[3] = Lit("\" is not defined by type \"")

IsAnyNotDefinedCall(c) ==
  /\ c.path = <<>>
  /\ Len(c.error.message) >= 3
  /\ c.error.message[3] = Lit("\" is not defined by type \"")

\* C1: when the recursive coercion of coerceInputValue yields no value and
\* onError does not throw, onError has been invoked at least once when the
\* call returns, and the call returns no value.
C1_RejectedInputIsReported ==
  (call.op = "coerceInputValue" /\ ~call.thrown
     /\ call.coercedValue = Undefined)
    => (Len(call.calls) >= 1 /\ call.value = Undefined)

\* C1, for the inputs that hold no one-shot iterable: the same statement.
C1_RejectedReiterableInputIsReported ==
  (call.op = "coerceInputValue" /\ ~call.thrown
     /\ call.coercedValue = Undefined /\ ~HasGenerator(call.inputValue))
    => (Len(call.calls) >= 1 /\ call.value = Undefined)

\* C2: for an input object type O and an object-like value v with at least
\* one own key O does not declare, the coercion of v against O yields no
\* value, and validateInputValue with an onError that does not throw reports
\* exactly one "is not defined by type" error for each unknown key, and none
\* for any other key.
C2_UnknownKeys ==
  LET v == call.inputValue
      O == call.type
      notDefined == {i \in 1..Len(call.calls) :
                       IsAnyNotDefinedCall(call.calls[i])}
  IN  (call.op \in {"coerceInputValue", "validateInputValue"}
         /\ isInputObjectType(O) /\ isObjectLike(v)
         /\ UnknownKeys(v, O) # {})
        => /\ call.op = "coerceInputValue" => call.coercedValue = Undefined
           /\ (call.op = "validateInputValue" /\ ~call.thrown) =>
                /\ \A key \in UnknownKeys(v, O) :
                     Cardinality({i \in notDefined :
                                    IsNotDefinedCall(call.calls[i], key)}) = 1
                /\ Cardinality(notDefined) = Cardinality(UnknownKeys(v, O))

\* C2 witness: a validation that reported two unknown keys, once each.
C2_Witness ==
  /\ call.op = "validateInputValue"
  /\ call.onError = Collect
  /\ call.type = TestInputObject
  /\ call.inputValue = Obj(<<baz, qux>>, <<Null, Num(1)>>)
  /\ Len(call.calls) = 3
  /\ IsNotDefinedCall(call.calls[2], baz)
  /\ IsNotDefinedCall(call.calls[3], qux)

\* The type below a Non-Null wrapper, the type itself if it has none.
getNullableType(type) == IF isNonNullType(type) THEN type.ofType ELSE type

\* The invocations among calls whose path starts with key, in order, with
\* the key taken off the path.
CallsBelow(calls, key) ==
  LET below(c) == c.path # <<>> /\ c.path[1] = key
      sel == SelectSeq(calls, below)
  IN  [i \in 1..Len(sel) |-> [sel[i] EXCEPT !.path = Tail(sel[i].path)]]

\* The invocations among calls whose path is the root.
CallsAtRoot(calls) ==
  LET atRoot(c) == c.path = <<>>
  IN  SelectSeq(calls, atRoot)

IsNotProvidedCall(c, fieldName) ==
  /\ c.path = <<>>
  /\ Len(c.error.message) = 5
  /\ c.error.message[2] = Chars(fieldName)
  /\ c.error.message[5] = Lit("\" was not provided.")

\* The declared fields of type that v leaves unset and that are required:
\* of a Non-Null type, and without a default.
MissingRequired(v, type) ==
  {i \in 1..Len(getFields(type)) :
     LET field == getFields(type)[i]
     IN  /\ GetProp(v, field.name) = Undefined
         /\ isNonNullType(field.type)
         /\ field.defaultValue = Undefined}

\* The declared fields of type for which v carries a defined value.
Present(v, type) ==
  {i \in 1..Len(getFields(type)) :
     GetProp(v, getFields(type)[i].name) # Undefined}

\* C3: validateInputValue with an onError that does not throw never stops
\* after the first error. For an object-like input against an input object
\* type, the errors below each present declared field are all the errors
\* of that field's own validation, there is one error for each missing
\* required field and one for each unknown key, and nothing else. For an
\* iterable against a list type, the errors below each element are all the
\* errors of that element's own validation, and there is nothing else.
C3_ValidateNeverShortCircuits ==
  LET v == call.inputValue
      T == getNullableType(call.type)
      calls == call.calls
      root == CallsAtRoot(calls)
  IN  (call.op = "validateInputValue" /\ call.onError = Collect
         /\ ~isNullish(v)) =>
        /\ (isInputObjectType(T) /\ isObjectLike(v)) =>
             /\ \A i \in Present(v, T) :
                  LET field == getFields(T)[i]
                  IN  CallsBelow(calls, Str(field.name)) =
                        validateInputValue(GetProp(v, field.name), field.type,
                                           Collect).calls
             /\ \A i \in MissingRequired(v, T) :
                  Cardinality({j \in 1..Len(root) :
                     IsNotProvidedCall(root[j], getFields(T)[i].name)}) = 1
             /\ \A key \in UnknownKeys(v, T) :
                  Cardinality({j \in 1..Len(root) :
                     IsNotDefinedCall(root[j], key)}) = 1
             /\ Len(root) = Cardinality(MissingRequired(v, T))
                              + Cardinality(UnknownKeys(v, T))
             /\ \A j \in 1..Len(calls) :
                  calls[j].path # <<>> =>
                    \E i \in Present(v, T) :
                      calls[j].path[1] = Str(getFields(T)[i].name)
        /\ (isListType(T) /\ isIterableObject(v)) =>
             /\ \A i \in 1..Len(v.items) :
                  CallsBelow(calls, Num(i - 1)) =
                    validateInputValue(v.items[i], T.ofType, Collect).calls
             /\ root = <<>>
             /\ \A j \in 1..Len(calls) :
                  \E i \in 1..Len(v.items) : calls[j].path[1] = Num(i - 1)

\* C3 witness: an object that leaves two required fields unset, validated
\* with two separate reports.
C3_Witness ==
  /\ call.op = "validateInputValue"
  /\ call.onError = Collect
  /\ call.type = TwoRequired
  /\ call.inputValue = Obj(<<>>, <<>>)
  /\ Len(call.calls) = 2
  /\ IsNotProvidedCall(call.calls[1], foo)
  /\ IsNotProvidedCall(call.calls[2], bar)

\* The declared fields of type that v leaves unset and that declare a
\* default.
Defaulted(v, type) ==
  {i \in 1..Len(getFields(type)) :
     /\ GetProp(v, getFields(type)[i].name) = Undefined
     /\ getFields(type)[i].defaultValue # Undefined}

\* C4: for an input object type O and an object-like input v whose coercion
\* against O yields a value, the keys of the result are exactly the declared
\* fields for which v carries a defined value and the declared fields that v
\* leaves unset and that declare a default. An unset field without a default
\* is absent from the result, and an unset field with a default carries the
\* coerced default: the same value on every call, whatever the calls before.
C4_CoercedObjectKeys ==
  LET v == call.inputValue
      O == getNullableType(call.type)
      result == call.coercedValue
  IN  (call.op = "coerceInputValue" /\ isInputObjectType(O)
         /\ isObjectLike(v) /\ result # Undefined) =>
        /\ result.k = "object"
        /\ Range(result.keys) =
             {getFields(O)[i].name : i \in Present(v, O) \cup Defaulted(v, O)}
        /\ Len(result.keys) = Cardinality(Range(result.keys))
        /\ \A i \in Defaulted(v, O) :
             LET field == getFields(O)[i]
             IN  GetProp(result, field.name) =
                   coerceInputValueImpl(field.defaultValue, field.type,
                                        Fresh).value
        /\ \A i \in 1..Len(getFields(O)) :
             LET field == getFields(O)[i]
             IN  (GetProp(v, field.name) = Undefined
                    /\ field.defaultValue = Undefined) =>
                   \A j \in 1..Len(result.keys) : result.keys[j] # field.name

\* C4 witness: a second coercion of the empty object against a type with
\* two defaults, filled from the memo of the first.
C4_Witness ==
  /\ call.op = "coerceInputValue"
  /\ call.type = Defaults
  /\ call.inputValue = Obj(<<>>, <<>>)
  /\ call.before[FieldId(getFields(Defaults)[1])] # Undefined
  /\ call.writes = <<>>
  /\ call.coercedValue = Obj(<<foo, bar>>, <<Str(<<"1">>), Num(0)>>)

\* C4 witness of the absent field: an unset optional field without default.
C4_WitnessAbsent ==
  /\ call.op = "coerceInputValue"
  /\ call.type = TestInputObject
  /\ call.inputValue = Obj(<<foo>>, <<Num(1)>>)
  /\ call.coercedValue = Obj(<<foo>>, <<Num(1)>>)

\* C5: a null or absent value against a Non-Null type yields no value from
\* value coercion and exactly one error, "Expected non-nullable type ... not
\* to be null.", at the root from validateInputValue; a null literal against
\* a Non-Null type yields no value from coerceInputLiteral. A null or absent
\* value against a type that is not Non-Null yields null from value
\* coercion and no error from validation, and a null literal yields null.
C5_NullHandling ==
  /\ (call.op = "coerceInputValue" /\ call.inputValue \in {Null, Undefined}) =>
       IF isNonNullType(call.type)
       THEN call.coercedValue = Undefined /\ Len(call.calls) = 1
       ELSE /\ call.coercedValue = Null /\ call.value = Null
            /\ call.calls = <<>> /\ ~call.thrown
  /\ (call.op = "validateInputValue" /\ call.inputValue \in {Null, Undefined}) =>
       IF isNonNullType(call.type)
       THEN /\ Len(call.calls) = 1
            /\ call.calls[1].path = <<>>
            /\ call.calls[1].invalidValue = call.inputValue
            /\ call.calls[1].error.message =
                 <<Lit("Expected non-nullable type \""),
                   InspectType(call.type), Lit("\" not to be null.")>>
       ELSE call.calls = <<>> /\ ~call.thrown
  /\ (call.op = "coerceInputLiteral" /\ call.valueNode = NullNode) =>
       call.value = (IF isNonNullType(call.type) THEN Undefined ELSE Null)

\* C5 witness: an absent value validated against a Non-Null input object
\* type, with one error and no report of the fields below.
C5_Witness ==
  /\ call.op = "validateInputValue"
  /\ call.inputValue = Undefined
  /\ call.type = NonNull(TestInputObject)
  /\ call.onError = Collect
  /\ Len(call.calls) = 1

\* Deep equality of two values, the order of an object's keys put aside.
RECURSIVE DeepEqual(_, _)
DeepEqual(a, b) ==
  IF a.k # b.k THEN FALSE
  ELSE IF a.k = "array"
  THEN /\ Len(a.items) = Len(b.items)
       /\ \A i \in 1..Len(a.items) : DeepEqual(a.items[i], b.items[i])
  ELSE IF a.k = "object"
  THEN /\ Range(a.keys) = Range(b.keys)
       /\ \A i \in 1..Len(a.keys) :
            DeepEqual(a.vals[i], GetProp(b, a.keys[i]))
  ELSE a = b

\* Whether v has a literal form that keeps it: it holds no undefined, no
\* number that is not finite, no symbol and no one-shot iterable, at any
\* depth.
RECURSIVE Representable(_)
Representable(v) ==
  CASE v.k = "array" ->
         \A i \in 1..Len(v.items) :
           v.items[i] # Undefined /\ Representable(v.items[i])
    [] v.k = "object" ->
         \A i \in 1..Len(v.vals) :
           v.vals[i] # Undefined /\ Representable(v.vals[i])
    [] v.k = "number" -> v.fin
    [] v.k \in {"generator", "symbol", "undefined"} -> FALSE
    [] OTHER -> TRUE

\* Whether validation accepts v for T.
ValidFor(v, T) == validateInputValue(v, T, Collect).calls = <<>>

\* Whether v is its own coerced form for T.
CoercedFormFor(v, T) ==
  LET r == coerceInputValueImpl(v, T, Fresh)
  IN  r.value # Undefined /\ DeepEqual(r.value, v)

\* coerceInputLiteral(node, T), without variables.
RoundTrip(node, T) ==
  IF isThrown(node) THEN Undefined
  ELSE coerceInputLiteral(node, T, Undefined, Entry).value

\* C6 as stated: for every representable value v that is valid for T,
\* coerceInputLiteral(astFromValue(v, T), T) equals v.
C6_RoundTripOfValid ==
  (call.op = "astFromValue" /\ call.type # NoType
     /\ Representable(call.value) /\ ValidFor(call.value, call.type))
    => DeepEqual(RoundTrip(call.node, call.type), call.value)

\* C6, amended: for every representable value v that is its own coerced
\* form for T (coerceInputValue(v, T) deep-equals v),
\* coerceInputLiteral(astFromValue(v, T), T) deep-equals v.
C6_RoundTripOfCoerced ==
  (call.op = "astFromValue" /\ call.type # NoType
     /\ Representable(call.value) /\ CoercedFormFor(call.value, call.type))
    => DeepEqual(RoundTrip(call.node, call.type), call.value)

\* C6 witness: an object with an enum name and a float, written as an
\* object literal with an Enum node and a Float node, and read back.
C6_Witness ==
  /\ call.op = "astFromValue"
  /\ call.type = MyInputObj
  /\ call.value = Obj(<<bar, foo>>, <<Str(HELLO), Half(3)>>)
  /\ call.node = ObjectNode(<<ObjectField(bar, EnumNode(HELLO)),
                              ObjectField(foo, FloatNode(<<"1", ".", "5">>))>>)
  /\ CoercedFormFor(call.value, call.type)
  /\ RoundTrip(call.node, call.type) =
       Obj(<<foo, bar>>, <<Half(3), Str(HELLO)>>)

\* What the coercion of a value alone yields.
Coerced(v, T) == coerceInputValueImpl(v, T, Fresh).value

\* What the coercion of a literal alone yields.
CoercedLiteral(node, T, variables) ==
  coerceInputLiteral(node, T, variables, Fresh).value

\* Whether node refers to a variable that variables does not define.
RefersToMissing(node, variables) ==
  /\ node.kind = "Variable"
  /\ \/ variables \in {Null, Undefined}
     \/ \A i \in 1..Len(variables.keys) :
          variables.keys[i] = node.name => variables.vals[i] = Undefined

\* Whether undefined occurs inside v, as an item or as a property value.
RECURSIVE HasUndefinedInside(_)
HasUndefinedInside(v) ==
  \/ v.k = "array" /\ \E i \in 1..Len(v.items) :
       v.items[i] = Undefined \/ HasUndefinedInside(v.items[i])
  \/ v.k = "object" /\ \E i \in 1..Len(v.vals) :
       v.vals[i] = Undefined \/ HasUndefinedInside(v.vals[i])

\* The variables hold no undefined inside a value.
VariablesClean(variables) ==
  variables.k = "object" =>
    \A i \in 1..Len(variables.vals) : ~HasUndefinedInside(variables.vals[i])

\* Whether the lists and objects that coercion against T built in v hold
\* no undefined; with lenient, but as the value of a field whose declared
\* default does not coerce. What a leaf type or a variable supplied is
\* taken as it is.
RECURSIVE Clean(_, _, _)
Clean(v, T, lenient) ==
  IF isNonNullType(T) THEN Clean(v, T.ofType, lenient)
  ELSE IF isListType(T) /\ v.k = "array"
  THEN \A i \in 1..Len(v.items) :
         v.items[i] # Undefined /\ Clean(v.items[i], T.ofType, lenient)
  ELSE IF isInputObjectType(T) /\ v.k = "object"
  THEN \A i \in 1..Len(v.keys) :
         isDeclared(T, v.keys[i]) =>
           LET field == fieldDef(T, v.keys[i])
           IN  IF v.vals[i] = Undefined
               THEN /\ lenient
                    /\ field.defaultValue # Undefined
                    /\ Coerced(field.defaultValue, field.type) = Undefined
               ELSE Clean(v.vals[i], field.type, lenient)
  ELSE TRUE

\* The items of a list input, or of a list literal, that do not coerce.
BadItems(items, itemType) ==
  {i \in 1..Len(items) : Coerced(items[i], itemType) = Undefined}

BadItemNodes(values, itemType, variables) ==
  {i \in 1..Len(values) :
     CoercedLiteral(values[i], itemType, variables) = Undefined}

\* The declared fields that an object literal supplies, other than by a
\* missing variable, and whose value does not coerce.
BadFieldNodes(node, O, variables) ==
  {i \in 1..Len(getFields(O)) :
     \E j \in 1..Len(node.fields) :
       /\ node.fields[j].name = getFields(O)[i].name
       /\ \A l \in (j + 1)..Len(node.fields) :
            node.fields[l].name # node.fields[j].name
       /\ ~RefersToMissing(node.fields[j].value, variables)
       /\ CoercedLiteral(node.fields[j].value, getFields(O)[i].type,
                         variables) = Undefined}

\* The declared fields for which v carries a value that does not coerce.
BadFields(v, O) ==
  {i \in Present(v, O) :
     Coerced(GetProp(v, getFields(O)[i].name), getFields(O)[i].type)
       = Undefined}

C7_WitnessDefault ==
  /\ call.op = "coerceInputLiteral"
  /\ call.type = BadDefault
  /\ call.valueNode = ObjectNode(<<ObjectField(bar, IntNode(<<"1">>))>>)
  /\ call.value = Obj(<<foo, bar>>, <<Undefined, Num(1)>>)

\* The invocations of an onError that records and returns, for the same
\* input and type.
AllErrors(v, T) == validateInputValue(v, T, Collect).calls

\* The message the default callback throws for one invocation.
PrefixedMessage(c) ==
  <<Lit("Invalid value "), InspectValue(c.invalidValue)>>
    \o (IF c.path # <<>>
        THEN <<Lit(" at \"value"), PrintPathArray(c.path), Lit("\"")>>
        ELSE <<>>)
    \o <<Lit(": ")>> \o c.error.message

\* What C8 states of one call.
ThrowAbortsWalk ==
  LET all == AllErrors(call.inputValue, call.type)
      n == Len(call.calls)
  IN  /\ (call.op \in {"validateInputValue", "coerceInputValue"}
            /\ call.thrown) =>
           /\ n >= 1 /\ n <= Len(all)
           /\ call.calls = SubSeq(all, 1, n)
           /\ n = call.onError.n
           /\ call.error.originalError = call.calls[n].error.originalError
           /\ call.onError = ThrowAt(n) => call.error = call.calls[n].error
           /\ call.op = "coerceInputValue" => call.value = Undefined
      /\ (call.op \in {"validateInputValue", "coerceInputValue"}
            /\ ~call.thrown /\ call.onError # Collect) =>
           n < call.onError.n
      /\ (call.op = "coerceInputValue" /\ call.onError = DefaultOnError
            /\ call.coercedValue = Undefined) =>
           /\ call.thrown
           /\ n = 1
           /\ call.calls[1] = all[1]
           /\ call.error.message = PrefixedMessage(call.calls[1])

\* C8: when onError throws during validateInputValue or during the
\* validation that coerceInputValue runs, the walk stops at once: the error
\* reaches the caller and onError is not invoked again, so the errors of
\* later siblings are not reported. With the default callback,
\* coerceInputValue on a rejected input throws on the first error in walk
\* order, its message prefixed with 'Invalid value <inspect>', then
\* ' at "value<path>"' when the path is not empty, then ': '.
C8_ThrowAbortsWalk == ThrowAbortsWalk

\* C8, for the inputs that hold no one-shot iterable: the same statement.
C8_ThrowAbortsWalkOfReiterable ==
  (call.op \in {"validateInputValue", "coerceInputValue"}
     /\ ~HasGenerator(call.inputValue)) => ThrowAbortsWalk

\* C8, for validateInputValue alone, whatever the input holds.
C8_ThrowAbortsValidation ==
  call.op = "validateInputValue" => ThrowAbortsWalk

\* C9: coerceInputLiteral on a variable-reference node, for every expected
\* type T, yields no value when no variables are supplied or the name is
\* absent from them or mapped to undefined; yields no value when the
\* variable's value is null and T is Non-Null; and in every other case
\* returns the variable's value as stored, neither coerced nor validated
\* against T, with no default coerced on the way.
C9_VariableReference ==
  (call.op = "coerceInputLiteral" /\ call.valueNode.kind = "Variable") =>
    LET variables == call.variables
        name == call.valueNode.name
        stored == variables.vals[CHOOSE i \in 1..Len(variables.keys) :
                                   variables.keys[i] = name]
    IN  /\ call.writes = <<>>
        /\ IF RefersToMissing(call.valueNode, variables)
           THEN call.value = Undefined
           ELSE IF stored = Null /\ isNonNullType(call.type)
           THEN call.value = Undefined
           ELSE call.value = stored

\* C9 witness: a variable holding a number, referred to where an input
\* object is expected, and returned as stored.
C9_Witness ==
  /\ call.op = "coerceInputLiteral"
  /\ call.valueNode = vNode
  /\ call.type = NonNull(TestInputObject)
  /\ call.variables = Obj(<<<<"v">>>>, <<Num(1)>>)
  /\ call.value = Num(1)

\* Whether node a is node b but for the kind of the nodes that are String
\* nodes in b: Enum or Int instead of String, the text the same.
RECURSIVE SameUpToStringKind(_, _)
SameUpToStringKind(a, b) ==
  IF b.kind = "StringValue"
  THEN a.kind \in {"StringValue", "EnumValue", "IntValue"} /\ a.value = b.value
  ELSE IF a.kind # b.kind THEN FALSE
  ELSE IF b.kind = "ListValue"
  THEN /\ Len(a.values) = Len(b.values)
       /\ \A i \in 1..Len(b.values) :
            SameUpToStringKind(a.values[i], b.values[i])
  ELSE IF b.kind = "ObjectValue"
  THEN /\ Len(a.fields) = Len(b.fields)
       /\ \A i \in 1..Len(b.fields) :
            /\ a.fields[i].name = b.fields[i].name
            /\ SameUpToStringKind(a.fields[i].value, b.fields[i].value)
  ELSE a = b

\* C10: astFromValue never rejects a value because of its type hint. For a
\* value that has a literal form and every hint T, astFromValue(v, T)
\* returns a node, which differs from astFromValue(v) without a hint only
\* in the kind of the nodes of strings: Enum or Int instead of String.
\* Null and undefined give a Null node also under a Non-Null hint, a value
\* that is not a list gives a node that is not a list under a list hint,
\* and a number gives a number node under an input object hint.
C10_HintNeverRejects ==
  call.op = "astFromValue" =>
    LET v == call.value
        T == call.type
        plain == astFromValue(v, NoType)
    IN  /\ isThrown(call.node) <=> isThrown(plain)
        /\ ~isThrown(plain) => SameUpToStringKind(call.node, plain)
        /\ v \in {Null, Undefined} => call.node = NullNode
        /\ (T # NoType /\ isListType(getNullableType(T))
              /\ v.k \in {"boolean", "number", "string", "object"}) =>
             call.node.kind \notin {"ListValue", "TypeError"}
        /\ (T # NoType /\ isInputObjectType(getNamedType(T))
              /\ v.k = "number" /\ v.fin) =>
             call.node.kind \in {"IntValue", "FloatValue"}

\* C10 witness: a number under an input object hint, written as an Int
\* node.
C10_Witness ==
  /\ call.op = "astFromValue"
  /\ call.value = Num(1)
  /\ call.type = MyInputObj
  /\ call.node = IntNode(<<"1">>)

\* C10 witness of the string kinds: a string that names no value of the
\* enum it is hinted with, written as an Enum node.
C10_WitnessEnum ==
  /\ call.op = "astFromValue"
  /\ call.value = Str(<<"a">>)
  /\ call.type = myEnum
  /\ call.node = EnumNode(<<"a">>)

\* Identifier syntax: a letter or underscore, then letters, digits and
\* underscores.
IsIdentifier(s) ==
  /\ s # <<>>
  /\ Head(s) \notin Digits
  /\ \A i \in 1..Len(s) : s[i] \in Letters \cup Digits \cup {"_"}

\* Integer syntax: an optional minus, then "0" alone or digits that do not
\* start with "0".
IsIntegerText(s) ==
  \E sign \in {<<>>, <<"-">>} :
    \E n \in 1..Len(s) :
      /\ s = sign \o SubSeq(s, Len(sign) + 1, Len(s))
      /\ n = Len(s) - Len(sign)
      /\ \A i \in (Len(sign) + 1)..Len(s) : s[i] \in Digits
      /\ (n > 1 => s[Len(sign) + 1] # "0")

\* The node C11 gives a string s, the hint being an enum type or the ID
\* scalar as isEnum and isID say.
StringNodeFor(s, isEnum, isID) ==
  IF isEnum /\ IsIdentifier(s) THEN EnumNode(s)
  ELSE IF isID /\ IsIntegerText(s) THEN IntNode(s)
  ELSE StringNode(s)

\* C11 as stated: astFromValue on a string s with hint T returns an Enum
\* node when T resolves to an enum type and s has identifier syntax,
\* otherwise an Int node when the hint is the ID scalar itself and s has
\* integer syntax, otherwise a String node with value s.
C11_StringNodeKindExactID ==
  (call.op = "astFromValue" /\ call.value.k = "string") =>
    call.node =
      StringNodeFor(call.value.s,
                    call.type # NoType /\ isEnumType(getNamedType(call.type)),
                    call.type = GraphQLID)

\* C11, amended: astFromValue on a string s with hint T returns an Enum
\* node when T resolves to an enum type and s has identifier syntax
\* (whether or not s names a value of the enum), otherwise an Int node when
\* T resolves, through its Non-Null and List wrappers, to the ID scalar and
\* s has integer syntax, otherwise a String node with value s.
C11_StringNodeKind ==
  LET isEnum == call.type # NoType /\ isEnumType(getNamedType(call.type))
      isID == call.type # NoType /\ getNamedType(call.type) = GraphQLID
  IN  /\ (call.op = "astFromValue" /\ call.value.k = "string") =>
           call.node = StringNodeFor(call.value.s, isEnum, isID)
      /\ (call.op = "astFromValue" /\ call.value.k = "array") =>
           \A i \in 1..Len(call.value.items) :
             call.value.items[i].k = "string" =>
               call.node.values[i] =
                 StringNodeFor(call.value.items[i].s, isEnum, isID)

\* C11 witness: an integer text under a Non-Null ID hint, written as an Int
\* node.
C11_Witness ==
  /\ call.op = "astFromValue"
  /\ call.value = Str(<<"-", "1">>)
  /\ call.type = NonNull(GraphQLID)
  /\ call.node = IntNode(<<"-", "1">>)

\* C11 witness of the leading zero: written as a String node under ID.
C11_WitnessLeadingZero ==
  /\ call.op = "astFromValue"
  /\ call.value = Str(<<"0", "1">>)
  /\ call.type = GraphQLID
  /\ call.node = StringNode(<<"0", "1">>)

(***************************************************************************)
(* Memoization of coerced defaults                                         *)
(***************************************************************************)
\* The descriptor an identity names.
DescriptorOf(id) ==
  CHOOSE f \in {getFields(T)[i] : i \in 1..2, T \in {Defaults, BadDefault}} :
    FieldId(f) = id

\* How many times the call wrote the memo of the descriptor.
WritesOf(id) ==
  Cardinality({i \in 1..Len(call.writes) : call.writes[i] = id})

\* The calls that may need a default.
IsCoercionCall == call.op \in {"coerceInputValue", "coerceInputLiteral"}

\* What the call yields when no default was ever coerced before it.
YieldFromFresh ==
  IF call.op = "coerceInputValue"
  THEN Coerced(call.inputValue, call.type)
  ELSE CoercedLiteral(call.valueNode, call.type, call.variables)

\* What the call yielded.
YieldOfCall ==
  IF call.op = "coerceInputValue" THEN call.coercedValue ELSE call.value

C12_WitnessTwice ==
  /\ call.op = "coerceInputValue"
  /\ call.type = ListOf(Defaults)
  /\ call.inputValue = Arr(<<Obj(<<>>, <<>>), Obj(<<>>, <<>>)>>)
  /\ Len(call.writes) = 2
  /\ \A id \in Range(call.writes) : WritesOf(id) = 1
  /\ Len(call.coercedValue.items) = 2

\* C12 witness: a default that does not coerce is coerced again at each use.
C12_WitnessRecomputed ==
  /\ call.op = "coerceInputValue"
  /\ call.type = ListOf(BadDefault)
  /\ WritesOf(FieldId(getFields(BadDefault)[1])) = 2
  /\ coercedDefaultValue[FieldId(getFields(BadDefault)[1])] = Undefined

(***************************************************************************)
(* List literals                                                           *)
(***************************************************************************)
\* What the items of a list literal give against T: no value when an item
\* refers to a missing variable and T is Non-Null, or when another item has
\* no value; else the coerced items in order, null for a missing variable.
ItemsOfLiteral(values, T, variables) ==
  LET missing(i) == RefersToMissing(values[i], variables)
      item(i) == CoercedLiteral(values[i], T, variables)
  IN  IF \E i \in 1..Len(values) :
           IF missing(i) THEN isNonNullType(T) ELSE item(i) = Undefined
      THEN Undefined
      ELSE Arr([i \in 1..Len(values) |->
                  IF missing(i) THEN Null ELSE item(i)])

\* A node that is not a list, taken as a list of one.
ListOfOne(node, T, variables) ==
  LET item == CoercedLiteral(node, T, variables)
  IN  IF item = Undefined THEN Undefined ELSE Arr(<<item>>)

\* C13 (as stated): against List(T) a list literal gives ItemsOfLiteral, and
\* every node that is not a list literal gives a list of one, or no value.
C13_ListLiteralOrListOfOne ==
  (call.op = "coerceInputLiteral" /\ isListType(call.type)) =>
    call.value =
      IF call.valueNode.kind = "ListValue"
      THEN ItemsOfLiteral(call.valueNode.values, call.type.ofType,
                          call.variables)
      ELSE ListOfOne(call.valueNode, call.type.ofType, call.variables)

\* C13 (amended): against List(T) a list literal gives ItemsOfLiteral, with
\* as many items as the literal when it has a value; a variable reference
\* gives the value of the variable as it is, or no value when missing; the
\* null literal gives null; every other node gives a list of one, or no
\* value.
C13_ListLiteral ==
  (call.op = "coerceInputLiteral" /\ isListType(call.type)) =>
    LET node == call.valueNode
        T == call.type.ofType
    IN  CASE node.kind = "ListValue" ->
               /\ call.value = ItemsOfLiteral(node.values, T, call.variables)
               /\ call.value # Undefined =>
                    Len(call.value.items) = Len(node.values)
          [] node.kind = "Variable" ->
               call.value =
                 IF RefersToMissing(node, call.variables) THEN Undefined
                 ELSE GetProp(call.variables, node.name)
          [] node.kind = "NullValue" -> call.value = Null
          [] OTHER -> call.value = ListOfOne(node, T, call.variables)

\* C13 witness: a missing variable among the items of a list of nullable
\* items becomes null, the other item keeps its place.
C13_Witness ==
  /\ call.op = "coerceInputLiteral"
  /\ call.type = ListOf(GraphQLInt)
  /\ call.valueNode = ListNode(<<vNode, IntNode(<<"1">>)>>)
  /\ call.variables = Obj(<<>>, <<>>)
  /\ call.value = Arr(<<Null, Num(1)>>)

\* C13 witness: a missing variable among Non-Null items leaves no value.
C13_WitnessNonNull ==
  /\ call.op = "coerceInputLiteral"
  /\ call.type = ListOf(NonNull(GraphQLInt))
  /\ call.valueNode = ListNode(<<IntNode(<<"1">>), vNode>>)
  /\ call.variables = Undefined
  /\ call.value = Undefined

\* C13 witness: a node that is not a list becomes a list of one.
C13_WitnessListOfOne ==
  /\ call.op = "coerceInputLiteral"
  /\ call.type = ListOf(GraphQLInt)
  /\ call.valueNode = IntNode(<<"1">>)
  /\ call.value = Arr(<<Num(1)>>)

(***************************************************************************)
(* Object literals                                                         *)
(***************************************************************************)
\* The calls that coerce an object literal against an input object type.
IsObjectLiteralCall ==
  /\ call.op = "coerceInputLiteral"
  /\ call.valueNode.kind = "ObjectValue"
  /\ isInputObjectType(getNullableType(call.type))

\* Whether the literal supplies the field with something else than a missing
\* variable.
Supplied(node, field, variables) ==
  LET fieldNode == keyMapGet(node.fields, field.name)
  IN  /\ fieldNode # Undefined
      /\ ~RefersToMissing(fieldNode.value, variables)

\* What the object literal gives against O, field by field.
FieldsOfLiteral(node, O, variables) ==
  LET supplied(f) == Supplied(node, f, variables)
      coerced(f) == CoercedLiteral(keyMapGet(node.fields, f.name).value,
                                   f.type, variables)
      invalid(f) == IF supplied(f) THEN coerced(f) = Undefined
                    ELSE f.defaultValue = Undefined /\ isNonNullType(f.type)
      kept(f) == supplied(f) \/ f.defaultValue # Undefined
      fs == SelectSeq(getFields(O), kept)
  IN  IF \E i \in 1..Len(getFields(O)) : invalid(getFields(O)[i])
      THEN Undefined
      ELSE Obj([i \in 1..Len(fs) |-> fs[i].name],
               [i \in 1..Len(fs) |->
                  IF supplied(fs[i]) THEN coerced(fs[i])
                  ELSE Coerced(fs[i].defaultValue, fs[i].type)])

\* The literal without the fields set to a missing variable.
WithoutMissing(node, variables) ==
  LET stays(f) == ~RefersToMissing(f.value, variables)
  IN  ObjectNode(SelectSeq(node.fields, stays))

\* Whether no two fields of the literal have one name.
DistinctNames(node) ==
  \A i, j \in 1..Len(node.fields) :
    node.fields[i].name = node.fields[j].name => i = j

\* C14: an object literal against an input object type gives, field by
\* declared field, the coercion of a supplied field (no value for the object
\* when it has none), else the coerced default, else no value for the object
\* when the field is Non-Null, else nothing; a field set to a missing
\* variable counts as not supplied, so that the literal gives what it gives
\* without such fields.
C14_MissingVariableField ==
  IsObjectLiteralCall =>
    /\ call.value = FieldsOfLiteral(call.valueNode,
                                    getNullableType(call.type),
                                    call.variables)
    /\ DistinctNames(call.valueNode) =>
         call.value = CoercedLiteral(WithoutMissing(call.valueNode,
                                                    call.variables),
                                     call.type, call.variables)

\* C14 witness: a field set to a missing variable takes its default.
C14_Witness ==
  /\ call.op = "coerceInputLiteral"
  /\ call.type = Defaults
  /\ call.valueNode = ObjectNode(<<ObjectField(bar, vNode)>>)
  /\ call.variables = Obj(<<<<"v">>>>, <<Undefined>>)
  /\ call.value = Obj(<<foo, bar>>, <<Str(<<"1">>), Num(0)>>)

\* C14 witness: a variable set to null for a Non-Null field leaves no value,
\* default or not.
C14_WitnessNullVariable ==
  /\ call.op = "coerceInputLiteral"
  /\ call.type = Defaults
  /\ call.valueNode = ObjectNode(<<ObjectField(bar, vNode)>>)
  /\ call.variables = Obj(<<<<"v">>>>, <<Null>>)
  /\ call.value = Undefined

\* C14 witness: a missing variable for a nullable field with no default is
\* left out.
C14_WitnessOmitted ==
  /\ call.op = "coerceInputLiteral"
  /\ call.type = TestInputObject
  /\ call.valueNode = ObjectNode(<<ObjectField(foo, IntNode(<<"1">>)),
                                   ObjectField(bar, vNode)>>)
  /\ call.variables = Null
  /\ call.value = Obj(<<foo>>, <<Num(1)>>)

\* C14 witness: a missing variable for a required field leaves no value.
C14_WitnessRequired ==
  /\ call.op = "coerceInputLiteral"
  /\ call.type = TestInputObject
  /\ call.valueNode = ObjectNode(<<ObjectField(foo, vNode)>>)
  /\ RefersToMissing(vNode, call.variables)
  /\ call.value = Undefined

(***************************************************************************)
(* Validation reports only what coercion rejects                           *)
(***************************************************************************)
\* C15: an input for which validateInputValue invokes onError at least once
\* has no coerced value; and an input whose coercion yields a value is one
\* for which validateInputValue invokes onError not once.
C15_ReportedInputIsRejected ==
  /\ (call.op = "validateInputValue" /\ Len(call.calls) >= 1) =>
       Coerced(call.inputValue, call.type) = Undefined
  /\ (call.op = "coerceInputValue" /\ call.coercedValue # Undefined) =>
       /\ AllErrors(call.inputValue, call.type) = <<>>
       /\ call.calls = <<>>

\* C15 witness: validation reports the missing required field and the
\* unknown key of an object that coercion rejects.
C15_Witness ==
  /\ call.op = "validateInputValue"
  /\ call.type = TestInputObject
  /\ call.inputValue = Obj(<<baz>>, <<Num(1)>>)
  /\ call.onError = Collect
  /\ Len(call.calls) = 2
  /\ Coerced(call.inputValue, call.type) = Undefined

\* C15 witness: an object that leaves out a Non-Null field with a default
\* coerces to a value, and validation of it reports nothing.
C15_WitnessDefault ==
  /\ call.op = "coerceInputValue"
  /\ call.type = Defaults
  /\ call.inputValue = Obj(<<>>, <<>>)
  /\ call.coercedValue = Obj(<<foo, bar>>, <<Str(<<"1">>), Num(0)>>)
  /\ AllErrors(call.inputValue, call.type) = <<>>

\* C15 witness: a value that is not a list is promoted by both walks.
C15_WitnessListOfOne ==
  /\ call.op = "validateInputValue"
  /\ call.type = ListOf(NonNull(GraphQLInt))
  /\ call.inputValue = Str(<<"a">>)
  /\ Len(call.calls) >= 1
  /\ Coerced(call.inputValue, call.type) = Undefined

(***************************************************************************)
(* Unknown fields of object literals                                       *)
(***************************************************************************)
\* The literal without the fields O does not declare.
WithoutUndeclared(node, O) ==
  LET declared(f) == isDeclared(O, f.name)
  IN  ObjectNode(SelectSeq(node.fields, declared))

\* Whether the literal has a field O does not declare.
HasUndeclared(node, O) ==
  \E i \in 1..Len(node.fields) : ~isDeclared(O, node.fields[i].name)

\* C16: an object literal against an input object type O gives what it
\* gives without the fields O does not declare, and a value it gives has no
\* key but names O declares.
C16_UnknownFieldsIgnored ==
  IsObjectLiteralCall =>
    LET O == getNullableType(call.type)
    IN  /\ call.value =
             CoercedLiteral(WithoutUndeclared(call.valueNode, O), call.type,
                            call.variables)
        /\ call.value # Undefined =>
             Range(call.value.keys) \subseteq DeclaredNames(O)

\* C16 witness: a literal with an undeclared field gives the value of its
\* declared field alone.
C16_Witness ==
  /\ IsObjectLiteralCall
  /\ call.type = TestInputObject
  /\ call.valueNode = ObjectNode(<<ObjectField(baz, IntNode(<<"1">>)),
                                   ObjectField(foo, IntNode(<<"1">>))>>)
  /\ HasUndeclared(call.valueNode, call.type)
  /\ call.value = Obj(<<foo>>, <<Num(1)>>)

\* C16 witness: a literal with nothing but an undeclared field, set to a
\* missing variable, gives the defaults.
C16_WitnessOnlyUnknown ==
  /\ IsObjectLiteralCall
  /\ call.type = Defaults
  /\ call.valueNode = ObjectNode(<<ObjectField(baz, vNode)>>)
  /\ RefersToMissing(vNode, call.variables)
  /\ call.value = Obj(<<foo, bar>>, <<Str(<<"1">>), Num(0)>>)

====
